---- MODULE Spec2Model ----
(***************************************************************************)
(* Model of ys::SplayTree<int, int> (src/splay_tree.hpp): the node heap,   *)
(* the handle's root pointer tree_ and element counter length_, and the    *)
(* handle's operations add / find / remove / root_key / min_key / max_key. *)
(* Pointers are node identifiers; 0 is the null pointer.  A node exists    *)
(* from its `new` in Node::Add to its `delete` in Node::DeleteRoot.        *)
(***************************************************************************)
EXTENDS Integers, FiniteSets, Sequences, TLC

\* ---- bounds of the model ------------------------------------------------
MaxAdds == 4        \* add() is called at most this many times in a run
MaxKey == 3         \* keys passed to the operations are 1..MaxKey

Keys == 1..MaxKey

\* ---- program constants --------------------------------------------------
\* template defaults INVALID_K = ~(KTYPE)0, INVALID_V = ~(VTYPE)0: all bits
\* set, which is -1 for KTYPE = VTYPE = int (and 2^32 - 1 for unsigned int,
\* as main instantiates it); either way a number that is no key in Keys and
\* no value the caller passes
INVALID_K == -1
INVALID_V == -1

VARIABLES
    heap,       \* node identifier -> [k_, v_, c_]; the live (allocated) nodes
    tree_,      \* SplayTree::tree_ : root pointer, 0 when empty
    length_,    \* SplayTree::length_
    allocs,     \* number of nodes allocated so far (the next node is allocs+1)
    op,         \* the last operation called on the handle
    arg,        \* its key argument (0 when it takes none)
    ret,        \* its return value (0 for void)
    node,       \* the pointer Node::Find returned in the last find/remove
    steps,      \* the number of nodes that call visited
    crashed     \* the process died in a null-pointer dereference

vars == <<heap, tree_, length_, allocs, op, arg, ret, node, steps, crashed>>

\* Node::Node : a fresh node with no children
NewNode(k, v) == [k_ |-> k, v_ |-> v, c_ |-> [i \in 0..1 |-> 0]]

\* `new` : the heap with node id added
Alloc(h, id, k, v) ==
    [m \in (DOMAIN h) \cup {id} |-> IF m = id THEN NewNode(k, v) ELSE h[m]]

\* `delete n` : the heap without node n
Free(h, n) == [m \in (DOMAIN h) \ {n} |-> h[m]]

RECURSIVE Add(_, _, _, _, _)

\* Add with the operands of its comparison exchanged: i = (k <= n->k_)
Add_SwappedCompare(h, n, k, v, id) ==
    IF n # 0
    THEN LET i == IF k <= h[n].k_ THEN 1 ELSE 0
             r == Add(h, h[n].c_[i], k, v, id)
         IN  [h |-> [r.h EXCEPT ![n].c_[i] = r.n], n |-> n]
    ELSE [h |-> Alloc(h, id, k, v), n |-> id]

\* Add sending an equal key to the left: i = (n->k_ < k)
Add_EqualGoesLeft(h, n, k, v, id) ==
    IF n # 0
    THEN LET i == IF h[n].k_ < k THEN 1 ELSE 0
             r == Add(h, h[n].c_[i], k, v, id)
         IN  [h |-> [r.h EXCEPT ![n].c_[i] = r.n], n |-> n]
    ELSE [h |-> Alloc(h, id, k, v), n |-> id]

\* Node::Add(n, k, v), allocating node id; returns the heap and the root
Add(h, n, k, v, id) ==
    IF n # 0
    THEN LET i == IF h[n].k_ <= k THEN 1 ELSE 0
             r == Add(h, h[n].c_[i], k, v, id)
         IN  [h |-> [r.h EXCEPT ![n].c_[i] = r.n], n |-> n]
    ELSE [h |-> Alloc(h, id, k, v), n |-> id]

\* the tail handing the parent the wrong child: p->c_[i] = n->c_[i]
FindLink_SameSide(h, n, p, i) ==
    [h |-> [h EXCEPT ![p].c_[i] = h[n].c_[i]], p |-> n, c |-> p]

\* the tail without `p->c_[i] = n->c_[1-i];`: the parent keeps its link to n
FindLink_NoHandOver(h, n, p, i) ==
    [h |-> h, p |-> n, c |-> p]

\* the tail of the helper Find: c = p; p->c_[i] = n->c_[1-i]; p = n;
FindLink(h, n, p, i) ==
    [h |-> [h EXCEPT ![p].c_[i] = h[n].c_[1 - i]], p |-> n, c |-> p]

RECURSIVE FindSub(_, _, _, _, _)

\* the helper descending to the wrong side: j = (k < n->k_)
FindSub_WrongSide(h, n, p, k, i) ==
    IF n = 0
    THEN [h |-> h, p |-> p, c |-> 0]
    ELSE IF k # h[n].k_
         THEN LET j == IF k < h[n].k_ THEN 1 ELSE 0
                  r == FindSub(h, h[n].c_[j], n, k, j)
              IN  IF r.c = 0
                  THEN [h |-> r.h, p |-> p, c |-> 0]
                  ELSE FindLink([r.h EXCEPT ![r.p].c_[1 - j] = r.c], r.p, p, i)
         ELSE FindLink(h, n, p, i)

\* the helper without `if (!c) return 0;`: a miss below n is handled like a
\* hit, storing the null c in n->c_[1-j] and lifting n over its parent
FindSub_NoEarlyReturn(h, n, p, k, i) ==
    IF n = 0
    THEN [h |-> h, p |-> p, c |-> 0]
    ELSE IF k # h[n].k_
         THEN LET j == IF k > h[n].k_ THEN 1 ELSE 0
                  r == FindSub(h, h[n].c_[j], n, k, j)
              IN  FindLink([r.h EXCEPT ![r.p].c_[1 - j] = r.c], r.p, p, i)
         ELSE FindLink(h, n, p, i)

\* the private helper Node::Find(n, p, k, i); p is passed by reference, so
\* the result carries the heap, the new value of p and the returned pointer c
FindSub(h, n, p, k, i) ==
    IF n = 0
    THEN [h |-> h, p |-> p, c |-> 0]
    ELSE IF k # h[n].k_
         THEN LET j == IF k > h[n].k_ THEN 1 ELSE 0
                  r == FindSub(h, h[n].c_[j], n, k, j)
              IN  IF r.c = 0
                  THEN [h |-> r.h, p |-> p, c |-> 0]
                  ELSE FindLink([r.h EXCEPT ![r.p].c_[1 - j] = r.c], r.p, p, i)
         ELSE FindLink(h, n, p, i)

\* the public Find taking n by value: the caller's root is not replaced
Find_KeepRoot(h, n, k) ==
    IF n # 0 /\ k # h[n].k_
    THEN LET i == IF k > h[n].k_ THEN 1 ELSE 0
             r == FindSub(h, h[n].c_[i], n, k, i)
         IN  IF r.c = 0
             THEN [h |-> r.h, n |-> n, ret |-> 0]
             ELSE [h |-> [r.h EXCEPT ![r.p].c_[1 - i] = r.c],
                   n |-> n, ret |-> r.p]
    ELSE [h |-> h, n |-> n, ret |-> n]

\* the public Node::Find(n, k); n is passed by reference: the result carries
\* the heap, the new value of n and the returned pointer
Find(h, n, k) ==
    IF n # 0 /\ k # h[n].k_
    THEN LET i == IF k > h[n].k_ THEN 1 ELSE 0
             r == FindSub(h, h[n].c_[i], n, k, i)
         IN  IF r.c = 0
             THEN [h |-> r.h, n |-> r.p, ret |-> 0]
             ELSE [h |-> [r.h EXCEPT ![r.p].c_[1 - i] = r.c],
                   n |-> r.p, ret |-> r.p]
    ELSE [h |-> h, n |-> n, ret |-> n]

RECURSIVE Leftmost(_, _, _)
\* the while loop of DeleteRoot: <<p, c>> with c the leftmost node below c
Leftmost(h, p, c) ==
    IF h[c].c_[0] # 0 THEN Leftmost(h, c, h[c].c_[0]) ELSE <<p, c>>

\* DeleteRoot without the while loop: the right child itself replaces n
DeleteRoot_NoDescent(h, n) ==
    IF n = 0
    THEN [h |-> h, c |-> 0]
    ELSE IF h[n].c_[1] # 0
         THEN LET c == h[n].c_[1]
              IN  [h |-> Free([h EXCEPT ![c].c_[0] = h[n].c_[0]], n), c |-> c]
         ELSE [h |-> Free(h, n), c |-> h[n].c_[0]]

\* DeleteRoot without `c->c_[0] = n->c_[0];`
DeleteRoot_DropLeft(h, n) ==
    IF n = 0
    THEN [h |-> h, c |-> 0]
    ELSE IF h[n].c_[1] # 0
         THEN LET pc == Leftmost(h, 0, h[n].c_[1])
                  p  == pc[1]
                  c  == pc[2]
                  h1 == IF p # 0
                        THEN LET g == [h EXCEPT ![p].c_[0] = h[c].c_[1]]
                             IN  [g EXCEPT ![c].c_[1] = g[n].c_[1]]
                        ELSE h
              IN  [h |-> Free(h1, n), c |-> c]
         ELSE [h |-> Free(h, n), c |-> h[n].c_[0]]

\* DeleteRoot without `p->c_[0] = c->c_[1];`
DeleteRoot_NoSplice(h, n) ==
    IF n = 0
    THEN [h |-> h, c |-> 0]
    ELSE IF h[n].c_[1] # 0
         THEN LET pc == Leftmost(h, 0, h[n].c_[1])
                  p  == pc[1]
                  c  == pc[2]
                  h1 == IF p # 0 THEN [h EXCEPT ![c].c_[1] = h[n].c_[1]] ELSE h
                  h2 == [h1 EXCEPT ![c].c_[0] = h1[n].c_[0]]
              IN  [h |-> Free(h2, n), c |-> c]
         ELSE [h |-> Free(h, n), c |-> h[n].c_[0]]

\* Node::DeleteRoot(n); returns the heap and the new root
DeleteRoot(h, n) ==
    IF n = 0
    THEN [h |-> h, c |-> 0]
    ELSE IF h[n].c_[1] # 0
         THEN LET pc == Leftmost(h, 0, h[n].c_[1])
                  p  == pc[1]
                  c  == pc[2]
                  h1 == IF p # 0
                        THEN LET g == [h EXCEPT ![p].c_[0] = h[c].c_[1]]
                             IN  [g EXCEPT ![c].c_[1] = g[n].c_[1]]
                        ELSE h
                  h2 == [h1 EXCEPT ![c].c_[0] = h1[n].c_[0]]
              IN  [h |-> Free(h2, n), c |-> c]
         ELSE [h |-> Free(h, n), c |-> h[n].c_[0]]

\* number of nodes the search of Node::Find for k visits from n: the depth
\* of its recursion (instrumentation only; it does not influence the program)
RECURSIVE Visited(_, _, _)
Visited(h, n, k) ==
    IF n = 0 THEN 0
    ELSE IF k # h[n].k_
         THEN 1 + Visited(h, h[n].c_[IF k > h[n].k_ THEN 1 ELSE 0], k)
         ELSE 1

\* what a read through a null pointer may yield when the process survives it
NullRead == Keys \cup {0, INVALID_K}

Init ==
    /\ heap = <<>>
    /\ tree_ = 0
    /\ length_ = 0
    /\ allocs = 0
    /\ op = "new"
    /\ arg = 0
    /\ ret = 0
    /\ node = 0
    /\ steps = 0
    /\ crashed = FALSE

\* add without `++length_;`
add_NoCount(key, value) ==
    /\ ~crashed
    /\ allocs < MaxAdds
    /\ LET r == Add(heap, tree_, key, value, allocs + 1)
       IN  /\ heap' = r.h
           /\ tree_' = r.n
    /\ allocs' = allocs + 1
    /\ op' = "add"
    /\ arg' = key
    /\ ret' = 0
    /\ node' = 0
    /\ steps' = 0
    /\ UNCHANGED <<length_, crashed>>

\* SplayTree::add(key, value)
add(key, value) ==
    /\ ~crashed
    /\ allocs < MaxAdds
    /\ LET r == Add(heap, tree_, key, value, allocs + 1)
       IN  /\ heap' = r.h
           /\ tree_' = r.n
    /\ length_' = length_ + 1
    /\ allocs' = allocs + 1
    /\ op' = "add"
    /\ arg' = key
    /\ ret' = 0
    /\ node' = 0
    /\ steps' = 0
    /\ UNCHANGED crashed

\* the value SplayTree::find(key) returns for the pointer Node::Find returned
find_ret(h, n) == IF n # 0 THEN h[n].v_ ELSE INVALID_V

\* SplayTree::find(key)
find(key) ==
    /\ ~crashed
    /\ LET r == Find(heap, tree_, key)
       IN  /\ heap' = r.h
           /\ tree_' = r.n
           /\ node' = r.ret
           /\ ret' = find_ret(r.h, r.ret)
    /\ op' = "find"
    /\ arg' = key
    /\ steps' = Visited(heap, tree_, key)
    /\ UNCHANGED <<length_, allocs, crashed>>

\* remove with `--length_;` outside `if (node)`
remove_AlwaysCounts(key) ==
    /\ ~crashed
    /\ LET r == Find(heap, tree_, key)
       IN  /\ node' = r.ret
           /\ IF r.ret # 0
              THEN LET d == DeleteRoot(r.h, r.n)
                   IN  /\ ret' = r.h[r.ret].v_
                       /\ heap' = d.h
                       /\ tree_' = d.c
              ELSE /\ ret' = INVALID_V
                   /\ heap' = r.h
                   /\ tree_' = r.n
    /\ length_' = length_ - 1
    /\ op' = "remove"
    /\ arg' = key
    /\ steps' = Visited(heap, tree_, key)
    /\ UNCHANGED <<allocs, crashed>>

\* SplayTree::remove(key)
remove(key) ==
    /\ ~crashed
    /\ LET r == Find(heap, tree_, key)
       IN  /\ node' = r.ret
           /\ IF r.ret # 0
              THEN LET d == DeleteRoot(r.h, r.n)
                   IN  /\ ret' = r.h[r.ret].v_
                       /\ heap' = d.h
                       /\ tree_' = d.c
                       /\ length_' = length_ - 1
              ELSE /\ ret' = INVALID_V
                   /\ heap' = r.h
                   /\ tree_' = r.n
                   /\ length_' = length_
    /\ op' = "remove"
    /\ arg' = key
    /\ steps' = Visited(heap, tree_, key)
    /\ UNCHANGED <<allocs, crashed>>

\* SplayTree::root_key(): `if (tree_) return INVALID_K; return tree_->k_;`
\* with tree_ null the second statement reads through a null pointer
root_key ==
    /\ ~crashed
    /\ IF tree_ # 0
       THEN /\ ret' = INVALID_K
            /\ UNCHANGED crashed
       ELSE \/ /\ crashed' = TRUE
               /\ ret' = 0
            \/ /\ ret' \in NullRead
               /\ UNCHANGED crashed
    /\ op' = "root_key"
    /\ arg' = 0
    /\ node' = 0
    /\ steps' = 0
    /\ UNCHANGED <<heap, tree_, length_, allocs>>

\* SplayTree::min_key(): `if (tree_) return INVALID_K;` and then the loop
\* `while (node->c_[0])` from node = tree_, which is null there
min_key ==
    /\ ~crashed
    /\ IF tree_ # 0
       THEN /\ ret' = INVALID_K
            /\ UNCHANGED crashed
       ELSE \/ /\ crashed' = TRUE
               /\ ret' = 0
            \/ /\ ret' \in NullRead
               /\ UNCHANGED crashed
    /\ op' = "min_key"
    /\ arg' = 0
    /\ node' = 0
    /\ steps' = 0
    /\ UNCHANGED <<heap, tree_, length_, allocs>>

\* SplayTree::max_key(): `if (tree_) return INVALID_K;` and then the loop
\* `while (node->c_[1])` from node = tree_, which is null there
max_key ==
    /\ ~crashed
    /\ IF tree_ # 0
       THEN /\ ret' = INVALID_K
            /\ UNCHANGED crashed
       ELSE \/ /\ crashed' = TRUE
               /\ ret' = 0
            \/ /\ ret' \in NullRead
               /\ UNCHANGED crashed
    /\ op' = "max_key"
    /\ arg' = 0
    /\ node' = 0
    /\ steps' = 0
    /\ UNCHANGED <<heap, tree_, length_, allocs>>

\* SplayTree::size()
size == length_

\* The caller: any operation with any key.  Like main (st.add(values[i], i)),
\* it passes the number of earlier add calls as the value, so that every entry
\* carries a value of its own; the code never inspects a value.
Next ==
    \/ \E key \in Keys : add(key, allocs)
    \/ \E key \in Keys : find(key)
    \/ \E key \in Keys : remove(key)
    \/ root_key
    \/ min_key
    \/ max_key

Spec == Init /\ [][Next]_vars

\* A caller that only adds.
NextAdd == \E key \in Keys : add(key, allocs)

SpecAdd == Init /\ [][NextAdd]_vars

\* ---- the handle's destruction --------------------------------------------

RECURSIVE DeleteAll(_, _)

\* DeleteAll with its loop running over i < 1 only: right subtrees are skipped
DeleteAll_LeftOnly(h, n) ==
    IF n = 0
    THEN [h |-> h, visits |-> 0, uaf |-> FALSE]
    ELSE IF n \notin DOMAIN h
         THEN [h |-> h, visits |-> 1, uaf |-> TRUE]
         ELSE LET a == IF h[n].c_[0] # 0
                       THEN DeleteAll(h, h[n].c_[0])
                       ELSE [h |-> h, visits |-> 0, uaf |-> FALSE]
              IN  [h |-> Free(a.h, n), visits |-> 1 + a.visits,
                   uaf |-> a.uaf \/ n \notin DOMAIN a.h]

\* Node::DeleteAll(n): the heap it leaves, the number of nodes it visited
\* (each visit ends in `delete n`), and whether it touched a node that was
\* already deallocated (reading its c_ or deleting it again)
DeleteAll(h, n) ==
    IF n = 0
    THEN [h |-> h, visits |-> 0, uaf |-> FALSE]
    ELSE IF n \notin DOMAIN h
         THEN [h |-> h, visits |-> 1, uaf |-> TRUE]
         ELSE LET none == [h |-> h, visits |-> 0, uaf |-> FALSE]
                  a == IF h[n].c_[0] # 0 THEN DeleteAll(h, h[n].c_[0]) ELSE none
                  b == IF n \notin DOMAIN a.h
                       THEN [h |-> a.h, visits |-> 0, uaf |-> TRUE]
                       ELSE IF a.h[n].c_[1] # 0
                            THEN DeleteAll(a.h, a.h[n].c_[1])
                            ELSE [h |-> a.h, visits |-> 0, uaf |-> FALSE]
              IN  [h |-> Free(b.h, n), visits |-> 1 + a.visits + b.visits,
                   uaf |-> a.uaf \/ b.uaf \/ n \notin DOMAIN b.h]

\* SplayTree::~SplayTree(): DeleteAll(tree_); touching a deallocated node is
\* undefined behaviour, which the process may or may not survive
destroy ==
    /\ ~crashed
    /\ op # "~SplayTree"
    /\ LET r == DeleteAll(heap, tree_)
       IN  /\ heap' = r.h
           /\ steps' = r.visits
           /\ IF r.uaf THEN crashed' \in BOOLEAN ELSE UNCHANGED crashed
    /\ op' = "~SplayTree"
    /\ arg' = 0
    /\ ret' = 0
    /\ node' = 0
    /\ UNCHANGED <<tree_, length_, allocs>>

\* A handle's life: any calls, then its destruction, after which it takes no
\* call.
NextLife ==
    \/ \E key \in Keys : op # "~SplayTree" /\ add(key, allocs)
    \/ \E key \in Keys : op # "~SplayTree" /\ find(key)
    \/ \E key \in Keys : op # "~SplayTree" /\ remove(key)
    \/ destroy

SpecLife == Init /\ [][NextLife]_vars

\* ---- the raw node interface (the second variant of the source) -----------

RECURSIVE FindSubB(_, _, _, _, _, _)

\* the bool-flag helper without `else { r = true; }`
FindSubB_NeverFound(h, n, p, k, i, r) ==
    IF n = 0
    THEN [h |-> h, p |-> p, c |-> 0, r |-> r]
    ELSE IF k # h[n].k_
         THEN LET j == IF k > h[n].k_ THEN 1 ELSE 0
                  q == FindSubB(h, h[n].c_[j], n, k, j, r)
              IN  IF ~q.r
                  THEN [h |-> q.h, p |-> p, c |-> q.p, r |-> q.r]
                  ELSE LET l == FindLink([q.h EXCEPT ![q.p].c_[1 - j] = q.c],
                                         q.p, p, i)
                       IN  [h |-> l.h, p |-> l.p, c |-> l.c, r |-> q.r]
         ELSE LET l == FindLink(h, n, p, i)
              IN  [h |-> l.h, p |-> l.p, c |-> l.c, r |-> r]

\* the private helper Node::Find(n, p, k, i, r) of the raw variant; p and r
\* are passed by reference: the result carries the heap, the new values of p
\* and r, and the returned pointer c (on a miss `return n;`, n being the
\* local the callee received by reference)
FindSubB(h, n, p, k, i, r) ==
    IF n = 0
    THEN [h |-> h, p |-> p, c |-> 0, r |-> r]
    ELSE IF k # h[n].k_
         THEN LET j == IF k > h[n].k_ THEN 1 ELSE 0
                  q == FindSubB(h, h[n].c_[j], n, k, j, r)
              IN  IF ~q.r
                  THEN [h |-> q.h, p |-> p, c |-> q.p, r |-> q.r]
                  ELSE LET l == FindLink([q.h EXCEPT ![q.p].c_[1 - j] = q.c],
                                         q.p, p, i)
                       IN  [h |-> l.h, p |-> l.p, c |-> l.c, r |-> q.r]
         ELSE LET l == FindLink(h, n, p, i)
              IN  [h |-> l.h, p |-> l.p, c |-> l.c, r |-> TRUE]

\* the public Node::Find(n, k) of the raw variant; same result shape as Find
FindB(h, n, k) ==
    IF n # 0 /\ k # h[n].k_
    THEN LET i == IF k > h[n].k_ THEN 1 ELSE 0
             q == FindSubB(h, h[n].c_[i], n, k, i, FALSE)
         IN  IF ~q.r
             THEN [h |-> q.h, n |-> q.p, ret |-> 0]
             ELSE [h |-> [q.h EXCEPT ![q.p].c_[1 - i] = q.c],
                   n |-> q.p, ret |-> q.p]
    ELSE [h |-> h, n |-> n, ret |-> n]

\* main: st = Node::Add(st, k, v); tree_ stands for main's root pointer st
st_Add(k, v) ==
    /\ allocs < MaxAdds
    /\ LET r == Add(heap, tree_, k, v, allocs + 1)
       IN  /\ heap' = r.h
           /\ tree_' = r.n
    /\ allocs' = allocs + 1
    /\ op' = "Add"
    /\ arg' = k
    /\ ret' = 0
    /\ node' = 0
    /\ steps' = 0
    /\ UNCHANGED <<length_, crashed>>

\* main: n = Node::Find(st, k); ret is the n->v_ main prints when n is set
st_Find(k) ==
    /\ LET r == FindB(heap, tree_, k)
       IN  /\ heap' = r.h
           /\ tree_' = r.n
           /\ node' = r.ret
           /\ ret' = IF r.ret # 0 THEN r.h[r.ret].v_ ELSE 0
    /\ op' = "Find"
    /\ arg' = k
    /\ steps' = Visited(heap, tree_, k)
    /\ UNCHANGED <<length_, allocs, crashed>>

RECURSIVE Walked(_, _)
\* number of times the while loop of DeleteRoot steps left from c
\* (instrumentation only)
Walked(h, c) == IF h[c].c_[0] # 0 THEN 1 + Walked(h, h[c].c_[0]) ELSE 0

\* main: st = Node::DeleteRoot(st);
st_DeleteRoot ==
    /\ LET d == DeleteRoot(heap, tree_)
       IN  /\ heap' = d.h
           /\ tree_' = d.c
    /\ op' = "DeleteRoot"
    /\ arg' = 0
    /\ ret' = 0
    /\ node' = 0
    /\ steps' = IF tree_ # 0 /\ heap[tree_].c_[1] # 0
                THEN Walked(heap, heap[tree_].c_[1])
                ELSE 0
    /\ UNCHANGED <<length_, allocs, crashed>>

\* A caller of the raw node interface: any of its three operations on its
\* root pointer, with any key.
NextNode ==
    \/ \E k \in Keys : st_Add(k, allocs)
    \/ \E k \in Keys : st_Find(k)
    \/ st_DeleteRoot

SpecNode == Init /\ [][NextNode]_vars

\* ========================================================================
\* Vocabulary of the properties
\* ========================================================================

RECURSIVE Closure(_, _)
\* the live nodes reachable from the set S along child links
Closure(h, S) ==
    LET T == S \cup {m \in DOMAIN h :
                        \E n \in S, i \in 0..1 : n \in DOMAIN h /\ h[n].c_[i] = m}
    IN  IF T = S THEN S ELSE Closure(h, T)

\* the nodes of the tree with root n
Nodes(h, n) == IF n = 0 THEN {} ELSE Closure(h, {n})

\* the nodes below child i of node n
Below(h, n, i) == Nodes(h, h[n].c_[i])

\* the nodes of the handle's tree, and those among them holding key k
Tree == Nodes(heap, tree_)
Holding(k) == {n \in Tree : heap[n].k_ = k}

RECURSIVE InOrder(_, _, _)
\* in-order traversal (left subtree, node, right subtree) of the tree at n,
\* as a sequence of nodes; d bounds the depth
InOrder(h, n, d) ==
    IF n = 0 \/ d = 0 THEN <<>>
    ELSE InOrder(h, h[n].c_[0], d - 1) \o <<n>> \o InOrder(h, h[n].c_[1], d - 1)

\* the keys of the handle's tree in in-order
InOrderKeys ==
    LET s == InOrder(heap, tree_, Cardinality(DOMAIN heap))
    IN  [x \in 1..Len(s) |-> heap[s[x]].k_]

NonDecreasing(s) == \A x \in 1..(Len(s) - 1) : s[x] <= s[x + 1]

RECURSIVE Last(_, _, _)
\* the last node reached from n by following child i
Last(h, n, i) == IF h[n].c_[i] # 0 THEN Last(h, h[n].c_[i], i) ELSE n

\* the earliest-added node among the set S of nodes (nodes are numbered in
\* the order of their add calls)
Oldest(S) == CHOOSE n \in S : \A m \in S : n <= m

\* ========================================================================
\* C1 (as stated): round trip.  Whenever find(k) has returned, its result
\* is the value v of every entry (k, v) that was added and has not been
\* removed.
\* ========================================================================
C1_RoundTripAnyEntry ==
    op = "find" =>
        \A n \in DOMAIN heap : heap[n].k_ = arg => ret = heap[n].v_

\* C1 (amended): whenever find(k) has returned, its result is the value v of
\* the entry (k, v) that was added and not removed, unless an entry with the
\* same key that was added earlier is still in the tree; so find(k) returns
\* the value of the earliest-added surviving entry with key k.
C1_RoundTrip ==
    op = "find" =>
        \A n \in DOMAIN heap :
            (/\ heap[n].k_ = arg
             /\ ~ \E m \in DOMAIN heap : m < n /\ heap[m].k_ = arg)
            => ret = heap[n].v_

\* a find that hit an entry below the root, in a tree that holds a second
\* entry with the same key and has seen a removal
C1_Witness ==
    /\ op = "find"
    /\ steps >= 2
    /\ ret # INVALID_V
    /\ Cardinality(Holding(arg)) >= 2
    /\ Cardinality(DOMAIN heap) < allocs

\* ========================================================================
\* C2: removal correctness.  Every successful remove(k) leaves size() exactly
\* 1 less than before, and leaves the tree such that an immediately following
\* find(k) returns INVALID_V if the removed entry was the only one with key
\* k, and otherwise the value of another entry that had key k.
\* ========================================================================
C2_RemovalCorrectness ==
    [][ (op' = "remove" /\ node' # 0) =>
          /\ size' = size - 1
          /\ LET had  == {n \in Nodes(heap, tree_) : heap[n].k_ = arg'}
                 r    == Find(heap', tree_', arg')
                 next == find_ret(r.h, r.ret)
             IN  IF Cardinality(had) = 1
                 THEN next = INVALID_V
                 ELSE \E n \in had \ {node'} : next = heap[n].v_
      ]_vars

\* a successful remove that went below the root for an entry whose key
\* another entry shares
C2_Witness ==
    /\ op = "remove"
    /\ node # 0
    /\ steps >= 2
    /\ Holding(arg) # {}

\* ========================================================================
\* C3: when key k is present, remove(k) returns the value of a node with key
\* k, which is the node Node::Find returned, and deletes exactly that node:
\* every other entry is still in the tree, with its key and value.
\* ========================================================================
C3_RemoveDeletesFound ==
    [][ (op' = "remove" /\ \E n \in Nodes(heap, tree_) : heap[n].k_ = arg') =>
          /\ node' \in Nodes(heap, tree_)
          /\ heap[node'].k_ = arg'
          /\ ret' = heap[node'].v_
          /\ DOMAIN heap' = (DOMAIN heap) \ {node'}
          /\ Nodes(heap', tree_') = Nodes(heap, tree_) \ {node'}
          /\ \A m \in DOMAIN heap' :
                heap'[m].k_ = heap[m].k_ /\ heap'[m].v_ = heap[m].v_
      ]_vars

\* a remove that deleted a node found below the root, whose successor was
\* not its right child, leaving at least two entries
C3_Witness ==
    /\ op = "remove"
    /\ node # 0
    /\ node \notin DOMAIN heap
    /\ steps >= 2
    /\ Cardinality(Tree) >= 2
    /\ heap[tree_].c_[1] # 0
    /\ heap[heap[tree_].c_[1]].c_[0] # 0

\* ========================================================================
\* C4: a lookup miss changes nothing.  For every tree, the empty one
\* included, and every key k that no node holds, find(k) returns INVALID_V
\* and leaves the root, every node (its child links, key and value) and the
\* element count as they were.
\* ========================================================================
C4_FindMissChangesNothing ==
    [][ (op' = "find" /\ ~ \E n \in DOMAIN heap : heap[n].k_ = arg') =>
          /\ ret' = INVALID_V
          /\ tree_' = tree_
          /\ heap' = heap
          /\ length_' = length_
      ]_vars

\* a find that missed after visiting three nodes
C4_Witness ==
    /\ op = "find"
    /\ Holding(arg) = {}
    /\ ret = INVALID_V
    /\ steps >= 3

\* ========================================================================
\* C5: a removal miss is reported as a value and changes nothing.  For every
\* tree, the empty one included, and every key k that no node holds,
\* remove(k) returns INVALID_V, leaves size() unchanged (so neither below 0
\* nor below the number of nodes) and leaves the tree unchanged.
\* ========================================================================
C5_RemoveMissChangesNothing ==
    [][ (op' = "remove" /\ ~ \E n \in DOMAIN heap : heap[n].k_ = arg') =>
          /\ ret' = INVALID_V
          /\ size' = size
          /\ size' >= 0
          /\ size' >= Cardinality(Nodes(heap', tree_'))
          /\ tree_' = tree_
          /\ heap' = heap
      ]_vars

\* a remove that missed after visiting two nodes or more
C5_Witness ==
    /\ op = "remove"
    /\ Holding(arg) = {}
    /\ ret = INVALID_V
    /\ node = 0
    /\ steps >= 2

\* a remove on the empty tree
C5_WitnessEmpty ==
    /\ op = "remove"
    /\ tree_ = 0
    /\ steps = 0
    /\ size = 0

RECURSIVE FirstOnPath(_, _, _)
\* the first node with key k on the search path from n (0 when there is none)
FirstOnPath(h, n, k) ==
    IF n = 0 THEN 0
    ELSE IF h[n].k_ = k THEN n
    ELSE FirstOnPath(h, h[n].c_[IF k > h[n].k_ THEN 1 ELSE 0], k)

\* ========================================================================
\* C6: on success find(k) makes the found node the root.  For every tree and
\* every key k some node of it holds, at whatever depth, find(k) succeeds
\* and afterwards the handle's root is the node the search found (the first
\* node with key k on the search path) and its key is k.
\* ========================================================================
C6_FoundNodeBecomesRoot ==
    [][ (op' = "find" /\ \E n \in Nodes(heap, tree_) : heap[n].k_ = arg') =>
          /\ node' # 0
          /\ node' = FirstOnPath(heap, tree_, arg')
          /\ tree_' = node'
          /\ heap'[tree_'].k_ = arg'
      ]_vars

\* a find that hit the fourth node on its path
C6_Witness ==
    /\ op = "find"
    /\ node # 0
    /\ steps >= 4

\* ========================================================================
\* C7: size() is the number of nodes reachable from the root in every state;
\* it grows by exactly 1 in every add, shrinks by exactly 1 in every
\* successful remove, and no other call changes it.
\* ========================================================================
C7_SizeIsNodeCount ==
    /\ [](size = Cardinality(Tree))
    /\ [][ size' = size + (IF op' = "add" THEN 1 ELSE 0)
                        - (IF op' = "remove" /\ node' # 0 THEN 1 ELSE 0)
         ]_vars

\* a tree of two nodes or more that has seen a successful remove and then
\* another call
C7_Witness ==
    /\ size >= 2
    /\ size < allocs
    /\ op # "remove"

\* ========================================================================
\* C8: the key accessors return the sentinel only when they fail.  On an
\* empty tree root_key(), min_key() and max_key() return INVALID_K; on a
\* non-empty tree root_key() returns the root's key, min_key() the key of the
\* leftmost node (the smallest key) and max_key() the key of the rightmost
\* node (the largest key).
\* ========================================================================
C8_KeyAccessors ==
    /\ ~crashed
    /\ op = "root_key" =>
          ret = IF tree_ = 0 THEN INVALID_K ELSE heap[tree_].k_
    /\ op = "min_key" =>
          ret = IF tree_ = 0 THEN INVALID_K ELSE heap[Last(heap, tree_, 0)].k_
    /\ op = "max_key" =>
          ret = IF tree_ = 0 THEN INVALID_K ELSE heap[Last(heap, tree_, 1)].k_

\* ========================================================================
\* C9: order after adds.  After any sequence of add calls, duplicates
\* included, the in-order traversal of the tree yields the keys in
\* non-decreasing order (and visits every added node).
\* ========================================================================
C9_InOrderAfterAdds ==
    /\ NonDecreasing(InOrderKeys)
    /\ Len(InOrderKeys) = allocs

\* three adds or more, two of them of one key, have built a tree whose root
\* has a left and a right subtree
C9_Witness ==
    /\ allocs >= 3
    /\ \E k \in Keys : Cardinality(Holding(k)) >= 2
    /\ heap[tree_].c_[0] # 0
    /\ heap[tree_].c_[1] # 0

\* ========================================================================
\* C10: search-tree invariant under every operation.  In every state reached
\* by add, find (hit or miss) and remove, duplicates allowed, every node n of
\* the tree has only keys strictly less than n's key in its left subtree and
\* only keys greater than or equal to n's key in its right subtree.
\* ========================================================================
C10_SearchTreeInvariant ==
    \A n \in Tree :
        /\ \A m \in Below(heap, n, 0) : heap[m].k_ < heap[n].k_
        /\ \A m \in Below(heap, n, 1) : heap[m].k_ >= heap[n].k_

\* after a removal and a find that hit below the root, the root has an equal
\* key in its right subtree and a smaller key in its left subtree
C10_Witness ==
    /\ op = "find"
    /\ node # 0
    /\ steps >= 2
    /\ Cardinality(DOMAIN heap) < allocs
    /\ \E m \in Below(heap, tree_, 1) : heap[m].k_ = heap[tree_].k_
    /\ Below(heap, tree_, 0) # {}

\* ========================================================================
\* C11 (as stated): data-model invariant of the specification.  For every
\* node n of every reachable tree, every key below children[0] is <= n's key
\* and every key below children[1] is > n's key, also after equal keys have
\* been added.
\* ========================================================================
C11_RightStrictlyGreater ==
    \A n \in Tree :
        /\ \A m \in Below(heap, n, 0) : heap[m].k_ <= heap[n].k_
        /\ \A m \in Below(heap, n, 1) : heap[m].k_ > heap[n].k_

\* C11 (amended): for every node n of every reachable tree, every key below
\* children[0] is <= n's key and every key below children[1] is >= n's key;
\* an equal key lies below children[1].
C11_DataModelInvariant ==
    \A n \in Tree :
        /\ \A m \in Below(heap, n, 0) : heap[m].k_ <= heap[n].k_
        /\ \A m \in Below(heap, n, 1) : heap[m].k_ >= heap[n].k_
        /\ \A m \in Tree \ {n} :
              heap[m].k_ = heap[n].k_ =>
                  m \in Below(heap, n, 1) \/ n \in Below(heap, m, 1)

\* three entries of one key are in a tree that has been restructured by a
\* find below the root
C11_Witness ==
    /\ \E k \in Keys : Cardinality(Holding(k)) >= 3
    /\ op = "find"
    /\ steps >= 2
    /\ node # 0

\* the parent of node x in heap h (0 when no node links to x)
ParentOf(h, x) ==
    IF \E q \in DOMAIN h : \E i \in 0..1 : h[q].c_[i] = x
    THEN CHOOSE q \in DOMAIN h : \E i \in 0..1 : h[q].c_[i] = x
    ELSE 0

\* the side of parent q on which x hangs
SideOf(h, q, x) == IF h[q].c_[1] = x THEN 1 ELSE 0

\* the standard single rotation of x over its parent q: q takes over x's
\* inner subtree, x takes q as its child, and q's former parent (if any)
\* links to x
Rotate(h, x, q) ==
    LET i  == SideOf(h, q, x)
        g  == ParentOf(h, q)
        h1 == [h EXCEPT ![q].c_[i] = h[x].c_[1 - i], ![x].c_[1 - i] = q]
    IN  IF g = 0 THEN h1 ELSE [h1 EXCEPT ![g].c_[SideOf(h, g, q)] = x]

RECURSIVE RotateToRoot(_, _)
\* the reference restructuring: x is rotated over its current parent until
\* it has none
RotateToRoot(h, x) ==
    IF ParentOf(h, x) = 0 THEN h ELSE RotateToRoot(Rotate(h, x, ParentOf(h, x)), x)

\* ========================================================================
\* C12: a successful Find restructures by one single rotation per level.
\* For every tree and every key k it holds, the tree Find leaves is the tree
\* obtained by rotating the found node over its current parent, bottom-up,
\* until it is the root: same root and same child links at every node.
\* ========================================================================
C12_FindIsRotateToRoot ==
    [][ (op' = "find" /\ node' # 0) =>
          LET x == FirstOnPath(heap, tree_, arg')
          IN  /\ tree_' = x
              /\ heap' = RotateToRoot(heap, x)
      ]_vars

\* a find that hit the fourth node on its path, so that three rotations were
\* due, with both subtrees of the new root non-empty
C12_Witness ==
    /\ op = "find"
    /\ node # 0
    /\ steps >= 4
    /\ heap[tree_].c_[0] # 0
    /\ heap[tree_].c_[1] # 0

\* the sequence s without its entries equal to x
Without(s, x) == SelectSeq(s, LAMBDA y : y # x)

\* in-order traversal of the tree at n in heap h, as a sequence of nodes
Traversal(h, n) == InOrder(h, n, Cardinality(DOMAIN h))

\* ========================================================================
\* C13: DeleteRoot is a successor splice.  On an absent root it returns
\* absent.  On a root without right child the new root is the old left
\* child.  Otherwise the new root is the leftmost node c of the old right
\* subtree, its left subtree is the old root's left subtree, and its right
\* subtree is the old right subtree without c, c's own right child taking
\* c's place under c's former parent.  In both cases the old root is
\* deallocated, no other link changes, and the in-order sequence of the
\* result is that of the input without the old root.
\* ========================================================================
C13_DeleteRootIsSuccessorSplice ==
    [][ op' = "DeleteRoot" =>
          IF tree_ = 0
          THEN tree_' = 0 /\ heap' = heap
          ELSE LET n == tree_
                   R == heap[n].c_[1]
                   c == IF R = 0 THEN 0 ELSE Last(heap, R, 0)
                   q == IF c = 0 THEN 0 ELSE ParentOf(heap, c)
               IN  /\ DOMAIN heap' = (DOMAIN heap) \ {n}
                   /\ Traversal(heap', tree_') = Without(Traversal(heap, n), n)
                   /\ Len(Traversal(heap, n)) = Cardinality(Nodes(heap, n))
                   /\ \A m \in DOMAIN heap' :
                         heap'[m].k_ = heap[m].k_ /\ heap'[m].v_ = heap[m].v_
                   /\ IF R = 0
                      THEN /\ tree_' = heap[n].c_[0]
                           /\ \A m \in DOMAIN heap' : heap'[m].c_ = heap[m].c_
                      ELSE /\ tree_' = c
                           /\ heap'[c].c_[0] = heap[n].c_[0]
                           /\ IF c = R
                              THEN heap'[c].c_[1] = heap[c].c_[1]
                              ELSE /\ heap'[c].c_[1] = R
                                   /\ heap'[q].c_[0] = heap[c].c_[1]
                                   /\ heap'[q].c_[1] = heap[q].c_[1]
                           /\ \A m \in (DOMAIN heap') \ {c, q} :
                                 heap'[m].c_ = heap[m].c_
      ]_vars

\* a DeleteRoot whose successor was below the right child and had a right
\* child of its own, which now hangs where the successor was
C13_Witness ==
    /\ op = "DeleteRoot"
    /\ steps >= 1
    /\ tree_ # 0
    /\ heap[tree_].c_[1] # 0
    /\ heap[heap[tree_].c_[1]].c_[0] # 0

\* a DeleteRoot on the absent root
C13_WitnessAbsent ==
    /\ op = "DeleteRoot"
    /\ tree_ = 0
    /\ allocs = 0

\* the child links of heap h that point at node m, as <<parent, side>> pairs
LinksTo(h, m) == {e \in (DOMAIN h) \X (0..1) : h[e[1]].c_[e[2]] = m}

\* ========================================================================
\* C14: ownership stays strictly hierarchical.  In every state reached by
\* add, find and remove the child links from the root form a tree: the root
\* and every child link are null or a live node (no link to a deleted
\* node), no link points at the root, every other node is the target of
\* exactly one link (no sharing, hence no cycle), and every node that was
\* added and not removed is reachable from the root (none is orphaned).
\* ========================================================================
C14_OwnershipIsATree ==
    /\ tree_ \in (DOMAIN heap) \cup {0}
    /\ \A n \in DOMAIN heap : \A i \in 0..1 :
          heap[n].c_[i] \in (DOMAIN heap) \cup {0}
    /\ tree_ # 0 => LinksTo(heap, tree_) = {}
    /\ \A m \in (DOMAIN heap) \ {tree_} : Cardinality(LinksTo(heap, m)) = 1
    /\ Tree = DOMAIN heap
    /\ Len(Traversal(heap, tree_)) = Cardinality(DOMAIN heap)
    /\ tree_ = 0 => heap = <<>>

\* a tree of three nodes after a removal and then a find that hit the third
\* node on its path
C14_Witness ==
    /\ Cardinality(DOMAIN heap) >= 3
    /\ Cardinality(DOMAIN heap) < allocs
    /\ op = "find"
    /\ node # 0
    /\ steps >= 3

\* ========================================================================
\* A caller that may store any value, INVALID_V included: add takes the value
\* as an unconstrained V, so nothing keeps the sentinel out of the tree.
\* This caller adds one entry fewer than the caller of Next.
\* ========================================================================
NextAny ==
    \/ \E key \in Keys, value \in {allocs, INVALID_V} :
          allocs < MaxAdds - 1 /\ add(key, value)
    \/ \E key \in Keys : find(key)
    \/ \E key \in Keys : remove(key)

SpecAny == Init /\ [][NextAny]_vars

\* ========================================================================
\* C15 as stated: duplicates are served oldest-first.  In every state reached
\* by add, find and remove, for every key k: find(k) returns INVALID_V
\* exactly when no entry with key k is in the tree, and otherwise the value
\* of the earliest-added entry with key k that has not been removed;
\* remove(k) removes that same entry.  Refuted by add(k, INVALID_V); find(k).
\* ========================================================================
C15_InvalidExactlyWhenAbsent ==
    [][ (op' = "find" \/ op' = "remove") =>
          LET S == {n \in DOMAIN heap : heap[n].k_ = arg'}
          IN  IF S = {}
              THEN /\ ret' = INVALID_V
                   /\ node' = 0
                   /\ DOMAIN heap' = DOMAIN heap
              ELSE /\ ret' # INVALID_V
                   /\ node' = Oldest(S)
                   /\ ret' = heap[Oldest(S)].v_
                   /\ DOMAIN heap' = IF op' = "remove"
                                     THEN (DOMAIN heap) \ {Oldest(S)}
                                     ELSE DOMAIN heap
      ]_vars

\* ========================================================================
\* C15 amended: find(k) and remove(k) return INVALID_V when no entry with
\* key k is in the tree and otherwise serve the earliest-added entry with
\* key k that has not been removed, returning the value stored in it; the
\* result is INVALID_V for a present key exactly when that entry stores
\* INVALID_V.  remove(k) deletes that entry and no other.
\* ========================================================================
C15_OldestFirst ==
    [][ (op' = "find" \/ op' = "remove") =>
          LET S == {n \in DOMAIN heap : heap[n].k_ = arg'}
          IN  IF S = {}
              THEN /\ ret' = INVALID_V
                   /\ node' = 0
                   /\ DOMAIN heap' = DOMAIN heap
              ELSE /\ node' = Oldest(S)
                   /\ ret' = heap[Oldest(S)].v_
                   /\ (ret' = INVALID_V) <=> (heap[Oldest(S)].v_ = INVALID_V)
                   /\ DOMAIN heap' = IF op' = "remove"
                                     THEN (DOMAIN heap) \ {Oldest(S)}
                                     ELSE DOMAIN heap
      ]_vars

\* a find that served the older of two entries with one key, below the root,
\* and returned INVALID_V because that is the value the entry stores, while
\* the newer entry stores another value
C15_Witness ==
    /\ op = "find"
    /\ node # 0
    /\ steps >= 2
    /\ ret = INVALID_V
    /\ \E n \in Holding(arg) : n > node /\ heap[n].v_ # INVALID_V

\* a remove that served the older of two entries with one key, the older one
\* being below the root and no longer the first-added node of the tree
C15_WitnessRemove ==
    /\ op = "remove"
    /\ node # 0
    /\ node > 1
    /\ steps >= 2
    /\ \E n \in Holding(arg) : n > node

RECURSIVE AddSlot(_, _, _)
\* the absent child slot <<n, i>> found from node n by stepping to
\* children[1] when the node's key is <= k and to children[0] otherwise
AddSlot(h, n, k) ==
    LET i == IF h[n].k_ <= k THEN 1 ELSE 0
    IN  IF h[n].c_[i] = 0 THEN <<n, i>> ELSE AddSlot(h, h[n].c_[i], k)

\* ========================================================================
\* C16: insertion never restructures.  add(k, v) allocates exactly one node,
\* childless and holding (k, v).  On an empty tree that node becomes the
\* root.  On a non-empty tree the root stays, every existing node keeps its
\* key, its value and each child link it had, and the new node is attached
\* in the one absent slot reached by descending from the root to
\* children[1] when node.key <= k and to children[0] otherwise; every other
\* absent slot stays absent.
\* ========================================================================
C16_AddNeverRestructures ==
    [][ op' = "add" =>
          \E new \in (DOMAIN heap') \ (DOMAIN heap) :
             /\ DOMAIN heap' = (DOMAIN heap) \cup {new}
             /\ heap'[new] = NewNode(arg', allocs)
             /\ IF tree_ = 0
                THEN tree_' = new
                ELSE LET s == AddSlot(heap, tree_, arg')
                     IN  /\ tree_' = tree_
                         /\ \A n \in DOMAIN heap :
                               /\ heap'[n].k_ = heap[n].k_
                               /\ heap'[n].v_ = heap[n].v_
                               /\ \A i \in 0..1 :
                                     heap'[n].c_[i] =
                                        IF <<n, i>> = s THEN new
                                        ELSE heap[n].c_[i]
      ]_vars

\* an add that attached its node two or more levels below the root, past an
\* entry with the same key, in a tree that a find had restructured before
\* (the first-added node is no longer the root)
C16_Witness ==
    /\ op = "add"
    /\ allocs \in Tree
    /\ tree_ # 1
    /\ 1 \in Tree
    /\ ParentOf(heap, allocs) \notin {0, tree_}
    /\ \E n \in Holding(arg) : n # allocs

\* ========================================================================
\* C17: teardown.  Destroying a handle whose tree holds N nodes runs
\* DeleteAll to completion: it visits N nodes, deallocates every one of them
\* (none is left allocated), deallocates none twice and reads no node after
\* its deallocation.
\* ========================================================================
C17_Teardown ==
    [][ op' = "~SplayTree" =>
          /\ Nodes(heap, tree_) = DOMAIN heap
          /\ steps' = Cardinality(DOMAIN heap)
          /\ DOMAIN heap' = {}
          /\ ~DeleteAll(heap, tree_).uaf
          /\ crashed' = FALSE
      ]_vars

\* a destroyed handle whose tree held three or more nodes, after at least
\* one entry had been removed
C17_Witness ==
    /\ op = "~SplayTree"
    /\ steps >= 3
    /\ allocs > steps
    /\ DOMAIN heap = {}

\* the destruction of an empty handle
C17_WitnessEmpty ==
    /\ op = "~SplayTree"
    /\ steps = 0
    /\ allocs > 0

\* ========================================================================
\* C18: the two Find variants are equivalent.  On every tree the raw
\* interface builds and for every key, the helper that reports a miss by a
\* null return and the helper that reports it through the flag r give the
\* same returned node (or none), the same new root and the same heap.
\* ========================================================================
C18_FindVariantsAgree ==
    \A k \in Keys : Find(heap, tree_, k) = FindB(heap, tree_, k)

\* the flag variant has just found a node three levels down and made it the
\* root, in a tree that lacks some key: the state before it offered both
\* variants that deep hit, and a miss
C18_Witness ==
    /\ op = "Find"
    /\ node # 0
    /\ node = tree_
    /\ steps >= 3
    /\ \E k \in Keys : Holding(k) = {}

====
